---- MODULE Spec2Model ----
(***************************************************************************)
(* Model of Source/astcenc_encoding_choice_error.cpp:                      *)
(*   merge_endpoints, compute_error_squared_rgb_single_partition and       *)
(*   compute_encoding_choice_errors.                                       *)
(*                                                                         *)
(* Numbers.  A float of the source is modelled by an exact number          *)
(*     [n, d, r]  standing for  (n / d) / sqrt(r)                          *)
(* with d = 0 standing for a non-finite value (NaN or infinity).  The      *)
(* radicand r is what lets normalize() be computed exactly: a lane of a    *)
(* normalized vector v is  v_lane / sqrt(dot(v, v)).  Rounding is not      *)
(* modelled.                                                               *)
(*                                                                         *)
(* Units.  Every colour-domain quantity (texel lanes, endpoints, the       *)
(* literals 65535.0f, 0x7800 and 0xFFFF) is expressed in units of          *)
(* ColourUnit = gcd(0x7800, 0xFFFF) = 15, so that squared alpha            *)
(* differences stay inside the integers of the checker.  All comparisons   *)
(* of the source between colour-domain quantities are homogeneous, so the  *)
(* change of unit does not change any outcome; error scores are scaled by  *)
(* ColourUnit^2.  texel_weight_rgb is expressed in units of 1e-20.         *)
(***************************************************************************)
EXTENDS Integers, Sequences, FiniteSets, TLC

VARIABLES
    bsd,    \* block_size_descriptor: [texel_count]
    blk,    \* imageblock: [data, alpha_lns], per texel
    pi,     \* partition_info: [partition_count, partition_of_texel]
    ewb,    \* error_weight_block: [texel_weight_rgb, error_weights], per texel
    stats,  \* what the colour-statistics functions return for the block:
            \* [color_scalefactors, averages, directions_rgb], per partition
    fits,   \* what the endpoint fits return for the block: [ei, ei1, ei2]
    eci,    \* the caller's encoding_choice_errors array
    call,   \* the arguments and locals of the last call at its return
    ref     \* the first call made on the block and what it wrote

vars == <<bsd, blk, pi, ewb, stats, fits, eci, call, ref>>

inputs == <<bsd, blk, pi, ewb, stats, fits>>

----------------------------------------------------------------------------
(* Bounds of the model.                                                    *)

MaxPartitionCount == 2

MaxTexels == 2

----------------------------------------------------------------------------
(* Exact arithmetic.                                                       *)

Abs(x) == IF x < 0 THEN -x ELSE x

RECURSIVE GCD(_, _)
GCD(a, b) == IF b = 0 THEN a ELSE GCD(b, a % b)

NaN == [n |-> 0, d |-> 0, r |-> 1]

IsFinite(x) == x.d # 0

Norm(n, d, r) ==
    IF d = 0 THEN NaN
    ELSE IF n = 0 THEN [n |-> 0, d |-> 1, r |-> 1]
    ELSE IF d = 1 THEN [n |-> n, d |-> 1, r |-> r]
    ELSE LET g == GCD(Abs(n), Abs(d))
             s == IF d < 0 THEN -1 ELSE 1
         IN  [n |-> (s * n) \div g, d |-> (s * d) \div g, r |-> r]

Q(n, d) == Norm(n, d, 1)

\* the integer n
FromInt(n) == [n |-> n, d |-> 1, r |-> 1]

Add(a, b) ==
    IF a.d = 0 \/ b.d = 0 THEN NaN
    ELSE IF a.n = 0 THEN b
    ELSE IF b.n = 0 THEN a
    ELSE IF a.r = b.r THEN Norm(a.n * b.d + b.n * a.d, a.d * b.d, a.r)
    ELSE CHOOSE x \in {} : TRUE  \* sums of different radicands never arise

Neg(a) == [a EXCEPT !.n = -a.n]

Sub(a, b) == Add(a, Neg(b))

Mul(a, b) ==
    IF a.d = 0 \/ b.d = 0 THEN NaN
    ELSE IF a.r = b.r THEN Norm(a.n * b.n, a.d * b.d * a.r, 1)
    ELSE Norm(a.n * b.n, a.d * b.d, a.r * b.r)

Div(a, b) ==
    IF a.d = 0 \/ b.d = 0 \/ b.n = 0 THEN NaN
    ELSE Norm(a.n * b.d, a.d * b.n, 1)

\* Comparisons of finite rationals; a comparison with NaN is false.
Less(a, b) == a.d # 0 /\ b.d # 0 /\ a.n * b.d < b.n * a.d

AbsQ(a) == [a EXCEPT !.n = Abs(a.n)]

MaxQ(a, b) == IF Less(a, b) THEN b ELSE a

Zero == Q(0, 1)

----------------------------------------------------------------------------
(* Four-lane vectors: functions on the lane ids 0..3 (lane 3 is alpha).    *)

BLOCK_MAX_PARTITIONS == 4

Lanes == 0 .. 3

Lanes3 == 0 .. 2

Partitions == 0 .. (BLOCK_MAX_PARTITIONS - 1)

vfloat4(a, b, c, d) == [l \in Lanes |-> <<a, b, c, d>>[l + 1]]

splat(x) == [l \in Lanes |-> x]

vzero == splat(Zero)

vadd(a, b) == [l \in Lanes |-> Add(a[l], b[l])]

vsub(a, b) == [l \in Lanes |-> Sub(a[l], b[l])]

vmul(a, b) == [l \in Lanes |-> Mul(a[l], b[l])]

vscale(a, s) == [l \in Lanes |-> Mul(a[l], s)]

vabs(a) == [l \in Lanes |-> AbsQ(a[l])]

vmax(a, s) == [l \in Lanes |-> MaxQ(a[l], s)]

vrecip(a) == [l \in Lanes |-> Div(Q(1, 1), a[l])]

set_lane(a, lane, x) == [a EXCEPT ![lane] = x]

dot3_s(a, b) == Add(Add(Mul(a[0], b[0]), Mul(a[1], b[1])), Mul(a[2], b[2]))

dot_s(a, b) == Add(dot3_s(a, b), Mul(a[3], b[3]))

\* a / sqrt(dot(a, a)): a zero-length vector gives 0/0 in every lane.
normalize(a) ==
    LET len2 == dot_s(a, a)
    IN  IF len2.d = 0 \/ len2.n = 0 THEN splat(NaN)
        ELSE [l \in Lanes |-> Norm(a[l].n * len2.d, a[l].d, len2.n * len2.d)]

select(a, b, cond) == [l \in Lanes |-> IF cond[l] THEN b[l] ELSE a[l]]

\* mask(): bit l of the result is the boolean of lane l.
mask(m) ==
    (IF m[0] THEN 1 ELSE 0) + (IF m[1] THEN 2 ELSE 0)
        + (IF m[2] THEN 4 ELSE 0) + (IF m[3] THEN 8 ELSE 0)

\* (x & 0x7) for a four-bit x.
And7(x) == x % 8

----------------------------------------------------------------------------
(* Literals of the source.                                                 *)

HDR_ALPHA == 30720

LDR_ALPHA == 65535

ColourUnit == GCD(HDR_ALPHA, LDR_ALPHA)

\* A colour-domain literal of the source, in model units.
Colour(x) == Q(x, ColourUnit)

\* texel_weight_rgb is in units of 1e-20, so the literal 1e-20f is 1.
TEXEL_WEIGHT_EPS == 1

\* 1e-7f, the floor of the scale factors before inversion.
CSF_FLOOR == Q(1, 10000000)

\* x < 1e-20f for an exact x whose denominator is far below 1e20:
\* only a value that is not positive is below 1e-20.
BelowTiny(x) == x.d # 0 /\ x.n <= 0

OFFSET_LIMIT == Mul(Q(12, 100), Colour(65535))

BC_LO == Mul(Q(1, 100), Colour(65535))

BC_HI == Mul(Q(99, 100), Colour(65535))

----------------------------------------------------------------------------
(* Accessors of the inputs.                                                *)

Texels == 0 .. (bsd.texel_count - 1)

ToVec(v) == [l \in Lanes |-> FromInt(v[l])]

\* imageblock::texel(i)
texel(i) == ToVec(blk.data[i])

error_weights(i) == ToVec(ewb.error_weights[i])

\* for (int i = 0; i < n; i++)
LoopRange(n) == 0 .. (n - 1)

----------------------------------------------------------------------------
(* merge_endpoints                                                         *)

\* an array element the function did not write
Unset == [unset |-> TRUE]

\* the content of an eci element before the first call writes it
Stale == [stale |-> TRUE]

\* the lanes taken from the wrong set
merge_endpoints_swapped(ep1, ep2, sep) ==
    LET partition_count == ep1.partition_count
        sep_mask == [l \in Lanes |-> l = sep]
    IN  [partition_count |-> partition_count,
         endpt0 |-> [i \in Partitions |->
                        IF i < partition_count
                        THEN select(ep2.endpt0[i], ep1.endpt0[i], sep_mask)
                        ELSE Unset],
         endpt1 |-> [i \in Partitions |->
                        IF i < partition_count
                        THEN select(ep2.endpt1[i], ep1.endpt1[i], sep_mask)
                        ELSE Unset]]

merge_endpoints(ep1, ep2, sep) ==
    LET partition_count == ep1.partition_count
        sep_mask == [l \in Lanes |-> l = sep]
    IN  [partition_count |-> partition_count,
         endpt0 |-> [i \in Partitions |->
                        IF i < partition_count
                        THEN select(ep1.endpt0[i], ep2.endpt0[i], sep_mask)
                        ELSE Unset],
         endpt1 |-> [i \in Partitions |->
                        IF i < partition_count
                        THEN select(ep1.endpt1[i], ep2.endpt1[i], sep_mask)
                        ELSE Unset]]

----------------------------------------------------------------------------
(* compute_error_squared_rgb_single_partition                              *)

\* a weight of exactly 1e-20 skipped too
Skipped_at_eps(i, partition_to_test) ==
    \/ pi.partition_of_texel[i] # partition_to_test
    \/ ewb.texel_weight_rgb[i] <= TEXEL_WEIGHT_EPS

\* the weight not tested
Skipped_other_partition(i, partition_to_test) ==
    pi.partition_of_texel[i] # partition_to_test

\* the texel is skipped by the `continue` of the loop
Skipped(i, partition_to_test) ==
    \/ pi.partition_of_texel[i] # partition_to_test
    \/ ewb.texel_weight_rgb[i] < TEXEL_WEIGHT_EPS

\* the default of LDR alpha for every texel
DefaultAlpha_ldr(lns) == Colour(LDR_ALPHA)

DefaultAlpha(lns) == IF lns THEN Colour(HDR_ALPHA) ELSE Colour(LDR_ALPHA)

\* omalpha * omalpha * ews.lane<3>()
AlphaDropTerm(point, ews, lns) ==
    LET omalpha == Sub(point[3], DefaultAlpha(lns))
    IN  Mul(Mul(omalpha, omalpha), ews[3])

\* the squared error of a texel against a processed line
LineTerm(point, ews, pline) ==
    LET param == dot3_s(point, pline.bs)
        rp1 == vadd(pline.amod, vscale(pline.bis, param))
        dist == vsub(rp1, point)
    IN  dot3_s(ews, vmul(dist, dist))

\* the same for the luminance line, whose amod is not added
LumaLineTerm(point, ews, pline) ==
    LET param == dot3_s(point, pline.bs)
        rp1 == vscale(pline.bis, param)
        dist == vsub(rp1, point)
    IN  dot3_s(ews, vmul(dist, dist))

ZeroSums == [uncor |-> Zero, samec |-> Zero, rgbl |-> Zero, l |-> Zero, a_drop |-> Zero]

\* the body of the loop for a texel that is not skipped
Accumulate(sums, i, plines) ==
    LET point == texel(i)
        ews == error_weights(i)
    IN  [a_drop |-> Add(sums.a_drop, AlphaDropTerm(point, ews, blk.alpha_lns[i])),
         uncor |-> Add(sums.uncor, LineTerm(point, ews, plines.uncor)),
         samec |-> Add(sums.samec, LineTerm(point, ews, plines.samec)),
         rgbl |-> Add(sums.rgbl, LineTerm(point, ews, plines.rgbl)),
         l |-> Add(sums.l, LumaLineTerm(point, ews, plines.l))]

RECURSIVE ErrorLoop(_, _, _, _)
ErrorLoop(i, sums, partition_to_test, plines) ==
    IF i >= bsd.texel_count THEN sums
    ELSE IF Skipped(i, partition_to_test)
         THEN ErrorLoop(i + 1, sums, partition_to_test, plines)
         ELSE ErrorLoop(i + 1, Accumulate(sums, i, plines), partition_to_test, plines)

\* the alpha sum started from what eci holds instead of zero
compute_error_squared_rgb_single_partition_carried(partition_to_test, plines) ==
    ErrorLoop(0,
              [ZeroSums EXCEPT !.a_drop = IF eci[partition_to_test] = Stale
                                          THEN Zero
                                          ELSE eci[partition_to_test].alpha_drop_error],
              partition_to_test, plines)

compute_error_squared_rgb_single_partition(partition_to_test, plines) ==
    ErrorLoop(0, ZeroSums, partition_to_test, plines)

----------------------------------------------------------------------------
(* compute_encoding_choice_errors                                          *)

IsZero(x) == x.d # 0 /\ x.n = 0

\* vfloat4 csf = color_scalefactors[i]; csf.set_lane<3>(0.0f);
Csf(i) == set_lane(ToVec(stats.color_scalefactors[i]), 3, Zero)

\* vfloat4 icsf = 1.0f / max(color_scalefactors[i], 1e-7f); icsf.set_lane<3>(0.0f);
Icsf(i) == set_lane(vrecip(vmax(ToVec(stats.color_scalefactors[i]), CSF_FLOOR)), 3, Zero)

Average(i) == ToVec(stats.averages[i])

Direction(i) == ToVec(stats.directions_rgb[i])

\* the direction of the uncorrelated line
UncorrDirection(dir, csf) ==
    IF IsZero(dot3_s(dir, dir)) THEN normalize(csf) ELSE normalize(dir)

\* the average normalized whatever its length
SamechromaDirection_unguarded(avg, csf) == normalize(avg)

\* the direction of the same-chroma line
SamechromaDirection(avg, csf) ==
    IF BelowTiny(dot3_s(avg, avg)) THEN normalize(csf) ELSE normalize(avg)

\* the direction of the HDR-luma line and of the luminance line
LumaDirection(csf) == normalize(csf)

\* amod, bs and bis of a line3 with origin a and direction b
Processed(a, b, csf, icsf) ==
    [amod |-> vmul(vsub(a, vscale(b, dot3_s(a, b))), icsf),
     bs |-> vmul(b, csf),
     bis |-> vmul(b, icsf)]

proc_luminance_lines(b, csf, icsf) ==
    [amod |-> vzero, bs |-> vmul(b, csf), bis |-> vmul(b, icsf)]

\* the normalized directions of the lines of partition i
LineDirections(i) ==
    [uncor |-> UncorrDirection(Direction(i), Csf(i)),
     samec |-> SamechromaDirection(Average(i), Csf(i)),
     luma |-> LumaDirection(Csf(i))]

\* the four processed lines of partition i
ProcessedLines(i, b) ==
    LET csf == Csf(i)
        icsf == Icsf(i)
        avg == Average(i)
    IN  [uncor |-> Processed(avg, b.uncor, csf, icsf),
         samec |-> Processed(vzero, b.samec, csf, icsf),
         rgbl |-> Processed(avg, b.luma, csf, icsf),
         l |-> proc_luminance_lines(b.luma, csf, icsf)]

\* (mask(m) & 0x7) == 0x7
RgbLanesSet(m) == And7(mask(m)) = 7

\* a difference equal to the limit accepted
CanOffsetEncode_inclusive(endpt0, endpt1) ==
    LET endpt_diff == vabs(vsub(endpt1, endpt0))
        endpt_can_offset == [l \in Lanes |-> ~Less(OFFSET_LIMIT, endpt_diff[l])]
    IN  RgbLanesSet(endpt_can_offset)

CanOffsetEncode(endpt0, endpt1) ==
    LET endpt_diff == vabs(vsub(endpt1, endpt0))
        endpt_can_offset == [l \in Lanes |-> Less(endpt_diff[l], OFFSET_LIMIT)]
    IN  RgbLanesSet(endpt_can_offset)

BlueContractProxies(endpt0, endpt1) ==
    vfloat4(Add(endpt0[0], Sub(endpt0[0], endpt0[2])),
            Add(endpt1[0], Sub(endpt1[0], endpt1[2])),
            Add(endpt0[1], Sub(endpt0[1], endpt0[2])),
            Add(endpt1[1], Sub(endpt1[1], endpt1[2])))

CanBlueContract(endpt0, endpt1) ==
    LET endpt_diff_bc == BlueContractProxies(endpt0, endpt1)
        endpt_can_bc_lo == [l \in Lanes |-> Less(BC_LO, endpt_diff_bc[l])]
        endpt_can_bc_hi == [l \in Lanes |-> Less(endpt_diff_bc[l], BC_HI)]
    IN  RgbLanesSet([l \in Lanes |-> endpt_can_bc_lo[l] /\ endpt_can_bc_hi[l]])

\* rgb_luma_error not stored
StoreSettings_no_luma(sums, can_offset_encode, can_blue_contract) ==
    [rgb_scale_error |-> Mul(Sub(sums.samec, sums.uncor), Q(7, 10)),
     luminance_error |-> Mul(Sub(sums.l, sums.uncor), Q(3, 1)),
     alpha_drop_error |-> Mul(sums.a_drop, Q(3, 1)),
     can_offset_encode |-> can_offset_encode,
     can_blue_contract |-> can_blue_contract]

\* "Store out the settings"
StoreSettings(sums, can_offset_encode, can_blue_contract) ==
    [rgb_scale_error |-> Mul(Sub(sums.samec, sums.uncor), Q(7, 10)),
     rgb_luma_error |-> Mul(Sub(sums.rgbl, sums.uncor), Q(15, 10)),
     luminance_error |-> Mul(Sub(sums.l, sums.uncor), Q(3, 1)),
     alpha_drop_error |-> Mul(sums.a_drop, Q(3, 1)),
     can_offset_encode |-> can_offset_encode,
     can_blue_contract |-> can_blue_contract]

\* the endpoints ep of the call: one fit, or the merge of the two fits
CallEndpoints(sep) ==
    IF sep = -1 THEN fits.ei ELSE merge_endpoints(fits.ei1, fits.ei2, sep)

NoCall == [none |-> TRUE]

NoRef == [none |-> TRUE]

ComputeEncodingChoiceErrors(sep) ==
    LET partition_count == pi.partition_count
        e == CallEndpoints(sep)
        b == [i \in LoopRange(partition_count) |-> LineDirections(i)]
        sums == [i \in LoopRange(partition_count) |->
                    compute_error_squared_rgb_single_partition(i, ProcessedLines(i, b[i]))]
        out == [i \in Partitions |->
                    IF i \in LoopRange(partition_count)
                    THEN StoreSettings(sums[i],
                             CanOffsetEncode(e.endpt0[i], e.endpt1[i]),
                             CanBlueContract(e.endpt0[i], e.endpt1[i]))
                    ELSE eci[i]]
    IN  /\ eci' = out
        /\ call' = [separate_component |-> sep, ep |-> e, directions |-> b, sums |-> sums]
        /\ UNCHANGED inputs

\* separate_component = -1
OnePlane == ComputeEncodingChoiceErrors(-1) /\ UNCHANGED ref

\* separate_component is the component of the second plane
TwoPlanes == (\E c \in Lanes : ComputeEncodingChoiceErrors(c)) /\ UNCHANGED ref

----------------------------------------------------------------------------
(* The blocks the calls are made on.                                       *)

\* Texels: colour lanes (R, G, B, A), alpha_lns flag, error weights.
TexelColours ==
    { [data |-> vfloat4(1, 0, 0, LDR_ALPHA \div ColourUnit), lns |-> FALSE,
       ews |-> vfloat4(1, 1, 1, 1)],
      [data |-> vfloat4(0, 2, 1, HDR_ALPHA \div ColourUnit), lns |-> TRUE,
       ews |-> vfloat4(1, 2, 1, 2)],
      [data |-> vfloat4(3, 1, 0, HDR_ALPHA \div ColourUnit), lns |-> FALSE,
       ews |-> vfloat4(2, 1, 1, 1)],
      [data |-> vfloat4(0, 0, 2, LDR_ALPHA \div ColourUnit), lns |-> TRUE,
       ews |-> vfloat4(1, 1, 2, 1)] }

\* a texel colour whose alpha is not the default of its alpha_lns flag
OffDefault(c) == c.data[3] # (IF c.lns THEN HDR_ALPHA ELSE LDR_ALPHA) \div ColourUnit

\* texel_weight_rgb: above 1e-20 for every colour; below 1e-20 and exactly
\* 1e-20 for colours whose alpha is off its default
TexelKinds ==
    { [colour |-> c, w |-> 2] : c \in TexelColours }
        \cup { [colour |-> c, w |-> 0] : c \in {x \in TexelColours : OffDefault(x) /\ ~x.lns} }
        \cup { [colour |-> c, w |-> TEXEL_WEIGHT_EPS] :
                 c \in {x \in TexelColours : OffDefault(x) /\ x.lns} }

PlainTexel ==
    [colour |-> [data |-> vfloat4(3, 1, 0, HDR_ALPHA \div ColourUnit), lns |-> FALSE,
                 ews |-> vfloat4(2, 1, 1, 1)],
     w |-> 2]

\* Per-partition statistics: scale factors (positive), average, direction.
StatKinds ==
    { [csf |-> c, avg |-> a, dir |-> d] :
        c \in {vfloat4(1, 1, 1, 1), vfloat4(1, 2, 1, 3)},
        a \in {vfloat4(0, 0, 0, 0), vfloat4(2, 0, 1, 0)},
        d \in {vfloat4(0, 0, 0, 0), vfloat4(1, 1, 0, 0)} }

PlainStat ==
    [csf |-> vfloat4(1, 1, 1, 1), avg |-> vfloat4(1, 1, 1, 0), dir |-> vfloat4(1, 0, 0, 0)]

\* a colour of an endpoint, its lanes in hundredths of a model unit
Ep(r, g, b, a) == vfloat4(Q(r, 100), Q(g, 100), Q(b, 100), Q(a, 100))

\* Lane values around the three thresholds (in hundredths):
\*   2185 + (2185 - 1) = 4369 = 0.01 * 65535,  216266 + (216266 - 1) = 432531
\*   = 0.99 * 65535,  54613 - 2185 = 52429 - 1 = 52428 = 0.12 * 65535,
\*   1000 + (1000 - 1) = 1999 is far below 0.01 * 65535.
Endpt0Kinds ==
    { Ep(54613, 54613, 1, 1), Ep(54613, 216266, 1, 1) }

Endpt1Kinds ==
    { Ep(54613, 54613, 2185, 54613), Ep(54613, 1000, 1, 1),
      Ep(216266, 54613, 1, 1), Ep(54613, 54613, 52429, 1) }

PlainEndpt == Ep(54613, 54613, 1, 1)

\* the two fits of a two-plane block, per partition
MergeKinds ==
    { [a0 |-> a0, a1 |-> Ep(54613, 54613, 2185, 54613),
       b0 |-> b0, b1 |-> Ep(54612, 216266, 3, 4)] :
        a0 \in {Ep(54613, 54613, 1, 1), Ep(2185, 54613, 1, 1)},
        b0 \in {Ep(54614, 2185, 2, 2), Ep(216266, 54612, 52429, 3)} }

PlainMerge ==
    [a0 |-> PlainEndpt, a1 |-> PlainEndpt, b0 |-> PlainEndpt, b1 |-> PlainEndpt]

\* a per-partition array: f on the partitions of the block, a filler elsewhere
PartitionArray(n, f(_), filler) ==
    [i \in Partitions |-> IF i < n THEN f(i) ELSE filler]

MkStats(n, k) ==
    [color_scalefactors |-> PartitionArray(n, LAMBDA i : k[i].csf, PlainStat.csf),
     averages |-> PartitionArray(n, LAMBDA i : k[i].avg, PlainStat.avg),
     directions_rgb |-> PartitionArray(n, LAMBDA i : k[i].dir, PlainStat.dir)]

MkEndpoints(n, e0(_), e1(_)) ==
    [partition_count |-> n,
     endpt0 |-> PartitionArray(n, e0, PlainEndpt),
     endpt1 |-> PartitionArray(n, e1, PlainEndpt)]

MkFits(n, one, two) ==
    [ei |-> MkEndpoints(n, LAMBDA i : one[i].e0, LAMBDA i : one[i].e1),
     ei1 |-> MkEndpoints(n, LAMBDA i : two[i].a0, LAMBDA i : two[i].a1),
     ei2 |-> MkEndpoints(n, LAMBDA i : two[i].b0, LAMBDA i : two[i].b1)]

PlainFit == [e0 |-> PlainEndpt, e1 |-> PlainEndpt]

\* the texels of a block: their kinds and their partitions
SetTexels(n, kinds, part) ==
    /\ bsd = [texel_count |-> n]
    /\ blk = [data |-> [t \in LoopRange(n) |-> kinds[t].colour.data],
              alpha_lns |-> [t \in LoopRange(n) |-> kinds[t].colour.lns]]
    /\ ewb = [texel_weight_rgb |-> [t \in LoopRange(n) |-> kinds[t].w],
              error_weights |-> [t \in LoopRange(n) |-> kinds[t].colour.ews]]
    /\ pi = [partition_count |-> Cardinality({part[t] : t \in LoopRange(n)}),
             partition_of_texel |-> part]

\* every partition of a block holds a texel
Assignments(n, pc) ==
    {part \in [LoopRange(n) -> LoopRange(pc)] :
        /\ \A q \in LoopRange(pc) : \E t \in LoopRange(n) : part[t] = q
        /\ \A t \in LoopRange(n - 1) : part[t] <= part[t + 1]}

OnePerPartition(pc) ==
    SetTexels(pc, [t \in LoopRange(pc) |-> PlainTexel], [t \in LoopRange(pc) |-> t])

NothingCalled ==
    /\ eci = [i \in Partitions |-> Stale]
    /\ call = NoCall
    /\ ref = NoRef

\* blocks that differ in their texels
TexelBlocks ==
    \E n \in 1 .. MaxTexels :
      \E pc \in 1 .. MaxPartitionCount :
        \E part \in Assignments(n, pc) :
          \E kinds \in [LoopRange(n) -> TexelKinds] :
            /\ SetTexels(n, kinds, part)
            /\ stats = MkStats(pc, [i \in LoopRange(pc) |-> PlainStat])
            /\ fits = MkFits(pc, [i \in LoopRange(pc) |-> PlainFit],
                                 [i \in LoopRange(pc) |-> PlainMerge])

\* blocks that differ in their colour statistics
StatBlocks ==
    \E pc \in 1 .. MaxPartitionCount :
      \E k \in [LoopRange(pc) -> StatKinds] :
        /\ OnePerPartition(pc)
        /\ stats = MkStats(pc, k)
        /\ fits = MkFits(pc, [i \in LoopRange(pc) |-> PlainFit],
                             [i \in LoopRange(pc) |-> PlainMerge])

\* blocks that differ in their one-plane endpoints
EndpointBlocks ==
    \E pc \in 1 .. MaxPartitionCount :
      \E one \in [LoopRange(pc) -> [e0 : Endpt0Kinds, e1 : Endpt1Kinds]] :
        /\ OnePerPartition(pc)
        /\ stats = MkStats(pc, [i \in LoopRange(pc) |-> PlainStat])
        /\ fits = MkFits(pc, one, [i \in LoopRange(pc) |-> PlainMerge])

\* blocks that differ in their two-plane endpoints
MergeBlocks ==
    \E pc \in 1 .. MaxPartitionCount :
      \E two \in [LoopRange(pc) -> MergeKinds] :
        /\ OnePerPartition(pc)
        /\ stats = MkStats(pc, [i \in LoopRange(pc) |-> PlainStat])
        /\ fits = MkFits(pc, [i \in LoopRange(pc) |-> PlainFit], two)

Next == OnePlane \/ TwoPlanes

\* calls on blocks that differ in their texels
InitTexels == TexelBlocks /\ NothingCalled

SpecTexels == InitTexels /\ [][Next]_vars

\* calls on blocks that differ in their colour statistics
InitStats == StatBlocks /\ NothingCalled

SpecStats == InitStats /\ [][Next]_vars

\* calls on blocks that differ in their endpoints
InitEndpoints == (EndpointBlocks \/ MergeBlocks) /\ NothingCalled

SpecEndpoints == InitEndpoints /\ [][Next]_vars

----------------------------------------------------------------------------
(* Repeated calls on one block, the first of them remembered.              *)

Remember(sep) ==
    ref' = IF ref = NoRef
           THEN [separate_component |-> sep,
                 eci |-> [i \in LoopRange(pi.partition_count) |-> eci'[i]],
                 between |-> FALSE]
           ELSE [ref EXCEPT !.between = @ \/ sep # ref.separate_component]

RepeatOnePlane == ComputeEncodingChoiceErrors(-1) /\ Remember(-1)

RepeatTwoPlanes == \E c \in Lanes : ComputeEncodingChoiceErrors(c) /\ Remember(c)

NextRepeat == RepeatOnePlane \/ RepeatTwoPlanes

InitRepeat == MergeBlocks /\ NothingCalled

SpecRepeat == InitRepeat /\ [][NextRepeat]_vars

----------------------------------------------------------------------------
(* Properties.                                                             *)

Called == call # NoCall

\* the partitions of the block
Parts == LoopRange(pi.partition_count)

EciFields ==
    {"rgb_scale_error", "rgb_luma_error", "luminance_error", "alpha_drop_error",
     "can_offset_encode", "can_blue_contract"}

StrictlyInside(x) == Less(BC_LO, x) /\ Less(x, BC_HI)

\* R + (R - B) and G + (G - B) of an endpoint colour
ProxyR(e) == Add(e[0], Sub(e[0], e[2]))

ProxyG(e) == Add(e[1], Sub(e[1], e[2]))

\* C1: after a call, can_blue_contract of every partition is true iff all
\* four contracted proxies (R', G' of endpt0 and R', G' of endpt1) lie
\* strictly between 0.01 * 65535 and 0.99 * 65535.
C1_BlueContractAllFour ==
    Called =>
        \A i \in Parts :
            eci[i].can_blue_contract =
                (/\ StrictlyInside(ProxyR(call.ep.endpt0[i]))
                 /\ StrictlyInside(ProxyG(call.ep.endpt0[i]))
                 /\ StrictlyInside(ProxyR(call.ep.endpt1[i]))
                 /\ StrictlyInside(ProxyG(call.ep.endpt1[i])))

\* C2: after a two-plane call with separate component c, lane c of every
\* merged endpoint is the lane of the second fit, every other lane is the
\* lane of the first fit, and the partition count is that of the first fit.
C2_MergeTakesLane ==
    (Called /\ call.separate_component # -1) =>
        /\ call.ep.partition_count = fits.ei1.partition_count
        /\ \A p \in LoopRange(fits.ei1.partition_count) : \A l \in Lanes :
              /\ call.ep.endpt0[p][l] =
                    IF l = call.separate_component
                    THEN fits.ei2.endpt0[p][l] ELSE fits.ei1.endpt0[p][l]
              /\ call.ep.endpt1[p][l] =
                    IF l = call.separate_component
                    THEN fits.ei2.endpt1[p][l] ELSE fits.ei1.endpt1[p][l]

\* a two-plane call on two partitions whose fits differ in every lane of endpt0
C2_Witness ==
    /\ Called
    /\ call.separate_component = 2
    /\ pi.partition_count = 2
    /\ \A p \in Parts : \A l \in Lanes : fits.ei1.endpt0[p][l] # fits.ei2.endpt0[p][l]
    /\ fits.ei2.endpt0[0] # fits.ei2.endpt0[1]
    /\ \A p \in Parts : call.ep.endpt0[p][2] = fits.ei2.endpt0[p][2]

\* C3: after a call, can_offset_encode of every partition is true iff
\* |endpt1 - endpt0| < 0.12 * 65535 in each of the lanes R, G and B.
C3_OffsetEncodeRgb ==
    Called =>
        \A i \in Parts :
            eci[i].can_offset_encode =
                \A l \in Lanes3 :
                    Less(AbsQ(Sub(call.ep.endpt1[i][l], call.ep.endpt0[i][l])), OFFSET_LIMIT)

\* a block with a partition whose alpha difference is above the limit and
\* whose flag is set, and a partition whose blue difference is the limit
C3_Witness ==
    /\ Called
    /\ \E i \in Parts :
          /\ eci[i].can_offset_encode
          /\ Less(OFFSET_LIMIT, AbsQ(Sub(call.ep.endpt1[i][3], call.ep.endpt0[i][3])))
    /\ \E i \in Parts :
          /\ ~eci[i].can_offset_encode
          /\ AbsQ(Sub(call.ep.endpt1[i][2], call.ep.endpt0[i][2])) = OFFSET_LIMIT
          /\ \A l \in {0, 1} :
                Less(AbsQ(Sub(call.ep.endpt1[i][l], call.ep.endpt0[i][l])), OFFSET_LIMIT)

VecFinite(v) == \A l \in Lanes : IsFinite(v[l])

ErrorsFinite(e) ==
    /\ IsFinite(e.rgb_scale_error)
    /\ IsFinite(e.rgb_luma_error)
    /\ IsFinite(e.luminance_error)
    /\ IsFinite(e.alpha_drop_error)

ZeroVector(v) == \A l \in Lanes : v[l] = 0

----------------------------------------------------------------------------

\* the texels of partition p whose weight satisfies the test
Counted(p, Test(_)) ==
    {t \in Texels : pi.partition_of_texel[t] = p /\ Test(ewb.texel_weight_rgb[t])}

ExceedsEps(w) == w > TEXEL_WEIGHT_EPS

AtLeastEps(w) == w >= TEXEL_WEIGHT_EPS

\* the five sums of the texels of a set, in any order
RECURSIVE SumsOver(_, _)
SumsOver(S, plines) ==
    IF S = {} THEN ZeroSums
    ELSE LET t == CHOOSE x \in S : TRUE
         IN  Accumulate(SumsOver(S \ {t}, plines), t, plines)

\* C6 as stated: the five sums of every partition are those of exactly the
\* texels of the partition whose RGB weight exceeds 1e-20.
C6_CountsAboveEps ==
    Called =>
        \A p \in Parts :
            call.sums[p] = SumsOver(Counted(p, ExceedsEps), ProcessedLines(p, call.directions[p]))

\* C6 as amended: the five sums of every partition are those of exactly the
\* texels of the partition whose RGB weight is at least 1e-20.
C6_CountsAtLeastEps ==
    Called =>
        \A p \in Parts :
            call.sums[p] = SumsOver(Counted(p, AtLeastEps), ProcessedLines(p, call.directions[p]))

\* a call on a block with a texel of weight exactly 1e-20 in one partition
\* and a texel below 1e-20 in another, the first counted, the second not
C6_Witness ==
    /\ Called
    /\ \E t \in Texels :
          /\ ewb.texel_weight_rgb[t] = TEXEL_WEIGHT_EPS
          /\ call.sums[pi.partition_of_texel[t]] # ZeroSums
    /\ \E t \in Texels :
          /\ ewb.texel_weight_rgb[t] < TEXEL_WEIGHT_EPS
          /\ call.sums[pi.partition_of_texel[t]] = ZeroSums

\* C7: a partition whose texels all have an RGB weight below 1e-20 has five
\* sums of zero and four error scores of zero.
C7_ZeroWeightPartition ==
    Called =>
        \A p \in Parts :
            (\A t \in Texels : pi.partition_of_texel[t] = p
                => ewb.texel_weight_rgb[t] < TEXEL_WEIGHT_EPS)
            => /\ \A f \in DOMAIN ZeroSums : call.sums[p][f] = Zero
               /\ eci[p].rgb_scale_error = Zero
               /\ eci[p].rgb_luma_error = Zero
               /\ eci[p].luminance_error = Zero
               /\ eci[p].alpha_drop_error = Zero

\* a call on a block with a partition of a texel below 1e-20 whose alpha is
\* off its default and whose alpha weight is not zero
C7_Witness ==
    /\ Called
    /\ \E t \in Texels :
          /\ ewb.texel_weight_rgb[t] < TEXEL_WEIGHT_EPS
          /\ ewb.error_weights[t][3] > 0
          /\ blk.data[t][3] * ColourUnit # (IF blk.alpha_lns[t] THEN HDR_ALPHA ELSE LDR_ALPHA)
          /\ \A u \in Texels : pi.partition_of_texel[u] = pi.partition_of_texel[t]
                => ewb.texel_weight_rgb[u] < TEXEL_WEIGHT_EPS
          /\ eci[pi.partition_of_texel[t]].alpha_drop_error = Zero

\* (alpha - default)^2 * alpha weight of a texel, in units of ColourUnit^2
AlphaLoss(t) ==
    LET default == IF blk.alpha_lns[t] THEN 30720 \div ColourUnit ELSE 65535 \div ColourUnit
        diff == blk.data[t][3] - default
    IN  diff * diff * ewb.error_weights[t][3]

RECURSIVE AlphaLossOver(_)
AlphaLossOver(S) ==
    IF S = {} THEN 0
    ELSE LET t == CHOOSE x \in S : TRUE IN AlphaLoss(t) + AlphaLossOver(S \ {t})

\* C8: alpha_drop_error of every partition is 3 times the sum over the
\* counted texels of (alpha - default)^2 * alpha weight, the default being
\* 0x7800 for a texel with alpha_lns and 0xFFFF otherwise; it is not
\* negative, and it is zero when every counted texel has its default alpha.
C8_AlphaDropError ==
    Called =>
        \A p \in Parts :
            LET S == Counted(p, AtLeastEps)
            IN  /\ eci[p].alpha_drop_error = FromInt(3 * AlphaLossOver(S))
                /\ ~Less(eci[p].alpha_drop_error, Zero)
                /\ (\A t \in S : AlphaLoss(t) = 0) => eci[p].alpha_drop_error = Zero

\* a call on a block with a partition of two counted texels off their
\* defaults, one with alpha_lns and one without
C8_Witness ==
    /\ Called
    /\ \E p \in Parts :
          /\ \E t \in Counted(p, AtLeastEps) : blk.alpha_lns[t] /\ AlphaLoss(t) > 0
          /\ \E t \in Counted(p, AtLeastEps) : ~blk.alpha_lns[t] /\ AlphaLoss(t) > 0
          /\ Less(Zero, eci[p].alpha_drop_error)

----------------------------------------------------------------------------

\* C9: a call writes the six fields of eci[i] for every partition i of the
\* block, and leaves every other element of eci and all its inputs as
\* they were.
C9_Frame ==
    [][ /\ inputs' = inputs
        /\ \A i \in Partitions :
              IF i < pi.partition_count
              THEN DOMAIN eci'[i] = EciFields
              ELSE eci'[i] = eci[i] ]_vars

\* a two-plane call on a block of one partition: eci[0] is written, eci[1] is not
C9_Witness ==
    /\ Called
    /\ call.separate_component # -1
    /\ pi.partition_count = 1
    /\ DOMAIN eci[0] = EciFields
    /\ eci[1] = Stale

====
